---- MODULE Spec2Model ----
(***************************************************************************)
(* Model of cogs/ingame.py: the Ingame cog (connect / disconnect /         *)
(* on_ready handlers running as tasks of the gateway event loop), the      *)
(* PlayerWrapper sessions they create, the two threads each session        *)
(* submits to the cog's ThreadPoolExecutor (Player.Connect and             *)
(* PlayerWrapper.HandleChat), the game thread's ReceiveChat callback and   *)
(* the delivery tasks HandleChat schedules on the event loop.              *)
(*                                                                         *)
(* Event-loop handlers are split at their await expressions: the code      *)
(* between two awaits is one action.  Threads are split at their accesses  *)
(* to shared state (deque operations are atomic in CPython).               *)
(***************************************************************************)
EXTENDS Integers, Sequences, FiniteSets, TLC

\* ---------------------------------------------------------------- bounds
MaxTasks == 2
MaxSess == 2
MaxWorkers == 2
MaxPush == 1
MaxPushDrain == 7

\* ------------------------------------------------------------- constants
None == 0
NoMessage == 0
NL == -1

SessIds == 1..MaxSess

Reasons == {"Invalid credentials.", "Forbidden"}

VARIABLES
    player,           \* bot.player: None or the session (PlayerWrapper) held
    awaiting,         \* handlers of the event loop suspended at each await
    result,           \* how the handler that finished last ended
    executor,         \* Ingame.executor: submitted work not yet started
    connPc,           \* per session: position of the Player.Connect thread
    chatPc,           \* per session: position of the HandleChat thread
    closed,           \* per session: the game connection has been closed
    queue,            \* per session: PlayerWrapper.queue
    chat_breakout,    \* per session: PlayerWrapper.chat_breakout
    i,                \* per session: HandleChat's loop index
    messages,         \* per session: HandleChat's local batch buffer
    loopTasks,        \* delivery tasks created on the event loop, not yet run
    sent,             \* what channel.send has been given, in order
    pushed,           \* per session: number of fragments appended so far
    handed,           \* per session: batches handed to create_task, in order
    tickQueue,        \* per session: the queue as it was when the sleep ended
    tickPush,         \* per session: a push happened in the tick in progress
    popped,           \* per session: successful poplefts since the sleep ended
    relayed,          \* the channel message on_message handled last, and what was done
    gameChat          \* the chat text the game connection was given last

gatewayVars == <<player, awaiting, result>>
threadVars == <<executor, connPc, chatPc, closed>>
queueVars == <<queue, chat_breakout, i, messages>>
deliveryVars == <<loopTasks, sent>>
tickVars == <<pushed, handed, tickQueue, tickPush, popped>>
relayVars == <<relayed, gameChat>>
vars == <<player, awaiting, result, executor, connPc, chatPc, closed,
          queue, chat_breakout, i, messages, loopTasks, sent,
          pushed, handed, tickQueue, tickPush, popped, relayed, gameChat>>

\* ------------------------------------------------------- user feedback
\* (the source's backquotes are written as apostrophes)
AlreadyConnectedMsg ==
    <<"A connection should already be established. Kill it with the 'disconnect' command if wanted.">>
LoginFailureMsg(e) ==
    <<"Login failure: '", e, "'">>
ConnectedMsg ==
    <<"'", "username", "' should have connected to '", "server", "'">>
NotEstablishedMsg ==
    <<"A connection is not already established.">>
DisconnectedMsg ==
    <<"The account should have disconnected">>

\* sudo's confirmation (line 250), the message spelled character by
\* character.
SaidMsg(message) ==
    <<"'", "username", "' should have said: '">> \o message \o <<"'">>

\* ------------------------------------------------------ channel messages
\* bot.PREFIX and the texts of channel messages, as sequences of
\* characters: a command invocation, plain chat, chat with the prefix
\* character inside, and the empty content of an attachment-only message.
PREFIX ==
    <<"!">>

Contents ==
    {<<"!", "c">>, <<"h", "i">>, <<"h", "!">>, <<>>}

\* str.startswith
StartsWith(content, prefix) ==
    /\ Len(content) >= Len(prefix)
    /\ SubSeq(content, 1, Len(prefix)) = prefix

\* The ways SendChat ends: it returns, or the game connection raises.
SendOutcomes ==
    {<<>>, <<"SendFailure">>}

\* What on_message did with a channel message: the message's attributes,
\* bot.player when it ran, whether SendChat returned, whether
\* message.delete() was called, and the exception that left the handler.
Relay(bot, guild, content, held, forwarded, deleted, exc) ==
    [bot |-> bot, guild |-> guild, content |-> content, held |-> held,
     forwarded |-> forwarded, deleted |-> deleted, exc |-> exc]

NoRelay ==
    Relay(FALSE, FALSE, <<>>, None, FALSE, FALSE, <<>>)

\* ------------------------------------------------------------- helpers
\* The places where a handler is suspended with state-changing code ahead:
\* connect at line 168, on_ready at line 135, connect at line 182,
\* disconnect at line 223.
AwaitPoints ==
    {"connect.delete", "on_ready.fetch_channel", "connect.fetch_channel",
     "disconnect.delete"}

\* How a handler ended: what it sent to its caller and the exception that
\* left the try block or the handler, <<type, text>> (<<>> for none).
Outcome(fb, exc) ==
    [feedback |-> fb, exc |-> exc]

NoResult ==
    Outcome(<<>>, <<>>)

\* Handlers in flight on the event loop.
InFlight ==
    awaiting["connect.delete"] + awaiting["on_ready.fetch_channel"]
    + awaiting["connect.fetch_channel"] + awaiting["disconnect.delete"]

NumSess ==
    Cardinality({s \in SessIds : connPc[s] /= "none"})

ConnRunning(s) ==
    connPc[s] \in {"running", "connected"}

ChatRunning(s) ==
    chatPc[s] \in {"check", "sleep", "pop", "handoff"}

\* Worker threads of the executor that are occupied.
Busy ==
    Cardinality({s \in SessIds : ConnRunning(s)})
    + Cardinality({s \in SessIds : ChatRunning(s)})

RECURSIVE SumTo(_, _)
SumTo(f, n) ==
    IF n = 0 THEN 0 ELSE f[n] + SumTo(f, n - 1)

\* Fragments appended so far, over all sessions.
TotalPushed ==
    SumTo(pushed, MaxSess)

\* ---------------------------------------------------------------- Init
Init ==
    /\ player = None
    /\ awaiting = [p \in AwaitPoints |-> 0]
    /\ result = NoResult
    /\ executor = <<>>
    /\ connPc = [s \in SessIds |-> "none"]
    /\ chatPc = [s \in SessIds |-> "none"]
    /\ closed = [s \in SessIds |-> FALSE]
    /\ queue = [s \in SessIds |-> <<>>]
    /\ chat_breakout = [s \in SessIds |-> FALSE]
    /\ i = [s \in SessIds |-> 0]
    /\ messages = [s \in SessIds |-> <<>>]
    /\ loopTasks = <<>>
    /\ sent = <<>>
    /\ pushed = [s \in SessIds |-> 0]
    /\ handed = [s \in SessIds |-> <<>>]
    /\ tickQueue = [s \in SessIds |-> <<>>]
    /\ tickPush = [s \in SessIds |-> FALSE]
    /\ popped = [s \in SessIds |-> 0]
    /\ relayed = NoRelay
    /\ gameChat = <<>>

\* ------------------------------------------------- gateway event loop
\* Ingame.isPycraftInstance of the cog registered by setup(): never set.
isPycraftInstance ==
    FALSE

\* Ingame.isPycraftInstance of the cog a PlayerWrapper builds for itself.
wrapperIsPycraftInstance ==
    TRUE

\* (mutant) the check of line 175 left out.
AlreadyConnected_Unchecked(p) ==
    FALSE

\* connect, line 175: a session is already held.
AlreadyConnected(p) ==
    p /= None

\* (mutant) lines 189-201 placed after the try statement, not in its else.
TryElse_Always(exc) ==
    TRUE

\* connect, lines 181-188: the else clause runs when the try raised nothing.
TryElse(exc) ==
    exc = <<>>

\* disconnect, lines 231-234: what Disconnect raised does not propagate.
Swallowed(exc) ==
    exc \in {<<>>, <<"OSError">>}

\* Player.Disconnect: closes the socket of the game connection; a failure
\* leaves the socket as it was.
Disconnect(s, exc) ==
    [closed EXCEPT ![s] = (exc = <<>>) \/ @]

\* connect command, up to its first await (ctx.message.delete()).
connect ==
    /\ InFlight < MaxTasks
    /\ awaiting' = [awaiting EXCEPT !["connect.delete"] = @ + 1]
    /\ UNCHANGED <<player, result, threadVars, queueVars, deliveryVars, tickVars>>
    /\ UNCHANGED relayVars

\* on_ready, up to its await of fetch_channel.
on_ready ==
    /\ InFlight < MaxTasks
    /\ awaiting' = IF isPycraftInstance = FALSE /\ player = None
                   THEN [awaiting EXCEPT !["on_ready.fetch_channel"] = @ + 1]
                   ELSE awaiting
    /\ UNCHANGED <<player, result, threadVars, queueVars, deliveryVars, tickVars>>
    /\ UNCHANGED relayVars

\* connect, from the return of ctx.message.delete() (called by on_ready:
\* from the return of on_ready's fetch_channel, through the AttributeError
\* of ctx.message) to the next await: the rejection's ctx.send, or
\* fetch_channel.
connect_check(p) ==
    /\ awaiting[p] > 0
    /\ IF AlreadyConnected(player)
       THEN /\ result' = Outcome(AlreadyConnectedMsg, <<>>)
            /\ awaiting' = [awaiting EXCEPT ![p] = @ - 1]
       ELSE /\ awaiting' = [awaiting EXCEPT ![p] = @ - 1,
                                            !["connect.fetch_channel"] = @ + 1]
            /\ UNCHANGED result
    /\ UNCHANGED <<player, threadVars, queueVars, deliveryVars, tickVars>>
    /\ UNCHANGED relayVars

\* fetch_channel raises (an HTTP error): it propagates out of the handler.
fetch_channel_fails(p) ==
    /\ awaiting[p] > 0
    /\ result' = Outcome(<<>>, <<"HTTPException">>)
    /\ awaiting' = [awaiting EXCEPT ![p] = @ - 1]
    /\ UNCHANGED <<player, threadVars, queueVars, deliveryVars, tickVars>>
    /\ UNCHANGED relayVars

\* connect, from the return of fetch_channel to the final ctx.send.
connect_create ==
    /\ awaiting["connect.fetch_channel"] > 0
    /\ \E exc \in {<<>>} \cup {<<"YggdrasilError", e>> : e \in Reasons} :
         LET s == NumSess + 1
         IN  IF TryElse(exc)
             THEN /\ NumSess < MaxSess
                  /\ queue' = [queue EXCEPT ![s] = <<>>]
                  /\ chat_breakout' = [chat_breakout EXCEPT ![s] = FALSE]
                  /\ connPc' = [connPc EXCEPT ![s] = "queued"]
                  /\ chatPc' = [chatPc EXCEPT ![s] = "queued"]
                  /\ executor' = executor \o <<<<s, "Connect">>, <<s, "HandleChat">>>>
                  /\ player' = s
                  /\ result' = Outcome(ConnectedMsg, exc)
                  /\ UNCHANGED <<closed, i, messages, deliveryVars, tickVars>>
             ELSE /\ result' = Outcome(LoginFailureMsg(exc[2]), exc)
                  /\ UNCHANGED <<player, threadVars, queueVars, deliveryVars,
                                 tickVars>>
    /\ awaiting' = [awaiting EXCEPT !["connect.fetch_channel"] = @ - 1]
    /\ UNCHANGED relayVars

\* disconnect command, up to its first await (ctx.message.delete()).
disconnect ==
    /\ InFlight < MaxTasks
    /\ awaiting' = [awaiting EXCEPT !["disconnect.delete"] = @ + 1]
    /\ UNCHANGED <<player, result, threadVars, queueVars, deliveryVars, tickVars>>
    /\ UNCHANGED relayVars

\* disconnect, from the return of its first await to the final ctx.send.
disconnect_run ==
    /\ awaiting["disconnect.delete"] > 0
    /\ IF player = None
       THEN /\ result' = Outcome(NotEstablishedMsg, <<>>)
            /\ UNCHANGED <<player, threadVars>>
       ELSE \E exc \in {<<>>, <<"OSError">>, <<"Exception">>} :
              /\ closed' = Disconnect(player, exc)
              /\ player' = IF Swallowed(exc) THEN None ELSE player
              /\ result' = IF Swallowed(exc)
                           THEN Outcome(DisconnectedMsg, <<>>)
                           ELSE Outcome(<<>>, exc)
              /\ UNCHANGED <<executor, connPc, chatPc>>
    /\ awaiting' = [awaiting EXCEPT !["disconnect.delete"] = @ - 1]
    /\ UNCHANGED <<queueVars, deliveryVars, tickVars>>
    /\ UNCHANGED relayVars

\* ------------------------------------------------------- chat to the game
\* Player.SendChat: the text is given to the game connection verbatim, or
\* the connection raises and nothing is given.
SendChat(s, text, exc) ==
    IF exc = <<>> THEN <<s, text>> ELSE gameChat

\* on_message's four early returns (lines 140-150) all passed.
Relayable_BotsToo(bot, guild, p, content) ==
    /\ guild
    /\ p /= None
    /\ ~StartsWith(content, PREFIX)

Relayable(bot, guild, p, content) ==
    /\ ~bot
    /\ guild
    /\ p /= None
    /\ ~StartsWith(content, PREFIX)

\* The statement after a call of SendChat is reached only when the call
\* returned: an exception leaves the handler.
Returned_Always(exc) ==
    TRUE

Returned(exc) ==
    exc = <<>>

\* on_message: it has no await before message.delete(), its last
\* statement, whose NotFound is caught.
on_message ==
    /\ \E bot \in BOOLEAN, guild \in BOOLEAN, content \in Contents,
          exc \in SendOutcomes :
         IF Relayable(bot, guild, player, content)
         THEN /\ gameChat' = SendChat(player, content, exc)
              /\ relayed' = Relay(bot, guild, content, player, exc = <<>>,
                                  Returned(exc), exc)
         ELSE /\ relayed' = Relay(bot, guild, content, player, FALSE, FALSE, <<>>)
              /\ UNCHANGED gameChat
    /\ UNCHANGED <<gatewayVars, threadVars, queueVars, deliveryVars, tickVars>>

\* sudo command: it has no await before its final ctx.send.
sudo ==
    /\ \E message \in Contents \ {<<>>}, exc \in SendOutcomes :
         IF player = None
         THEN /\ result' = Outcome(NotEstablishedMsg, <<>>)
              /\ UNCHANGED gameChat
         ELSE /\ gameChat' = SendChat(player, message, exc)
              /\ result' = Outcome(IF Returned(exc) THEN SaidMsg(message) ELSE <<>>,
                                   exc)
    /\ UNCHANGED <<player, awaiting, threadVars, queueVars, deliveryVars,
                   tickVars, relayed>>

\* ------------------------------------------------------ executor threads
\* ThreadPoolExecutor: work is started in submission order as soon as one
\* of its max_workers threads is free.
executor_start ==
    /\ executor /= <<>>
    /\ Busy < MaxWorkers
    /\ LET s == Head(executor)[1]
           fn == Head(executor)[2]
       IN  /\ connPc' = IF fn = "Connect" THEN [connPc EXCEPT ![s] = "running"] ELSE connPc
           /\ chatPc' = IF fn = "HandleChat" THEN [chatPc EXCEPT ![s] = "check"] ELSE chatPc
    /\ executor' = Tail(executor)
    /\ UNCHANGED <<gatewayVars, closed, queueVars, deliveryVars, tickVars>>
    /\ UNCHANGED relayVars

\* Player.Connect on its worker thread: the connection is established, or
\* the attempt raises and the exception stays in the unread future.
Connect(s) ==
    /\ connPc[s] = "running"
    /\ \E ok \in BOOLEAN :
         connPc' = [connPc EXCEPT ![s] =
                      IF closed[s] THEN "ended"
                      ELSE IF ok THEN "connected" ELSE "failed"]
    /\ UNCHANGED <<gatewayVars, executor, chatPc, closed, queueVars,
                   deliveryVars, tickVars>>
    /\ UNCHANGED relayVars

\* Player.Connect returns once the connection has been closed.
Connect_return(s) ==
    /\ connPc[s] = "connected"
    /\ closed[s]
    /\ connPc' = [connPc EXCEPT ![s] = "ended"]
    /\ UNCHANGED <<gatewayVars, executor, chatPc, closed, queueVars,
                   deliveryVars, tickVars>>
    /\ UNCHANGED relayVars

\* ----------------------------------------------------------- the queue
\* (mutant) the fragment appended without its newline.
AppendLine_NoNewline(m, x) ==
    m \o <<x>>

\* f"{x}\n" appended to the batch string.
AppendLine(m, x) ==
    m \o <<x, NL>>

\* (mutant) the leftmost element read (queue[0]) but not removed.
popleft_Peek(q) ==
    <<Head(q), q>>

\* (mutant) deque.pop(): the rightmost element.
popleft_Pop(q) ==
    <<q[Len(q)], SubSeq(q, 1, Len(q) - 1)>>

\* deque.popleft() on a non-empty deque: <<the value returned, the deque left>>.
popleft(q) ==
    <<Head(q), Tail(q)>>

\* (mutant) range(6).
PopAttempts_Six ==
    5 + 1

\* HandleChat, line 97: range(5).
PopAttempts ==
    5

\* HandleChat, lines 97-102: k iterations of the for loop run on batch m
\* and deque q with no push in between: <<the batch, the deque left>>.
RECURSIVE PopLoop(_, _, _)
PopLoop(m, q, k) ==
    IF k = 0 THEN <<m, q>>
    ELSE IF q = <<>> THEN PopLoop(m, q, k - 1)
    ELSE PopLoop(AppendLine(m, popleft(q)[1]), popleft(q)[2], k - 1)

\* ReceiveChat on the game connection's thread; message is what Parser
\* made of the packet: nothing, or the text of the session's next fragment
\* (fragments are numbered in the order of their arrival).  At most n
\* fragments arrive in all.
ReceiveChatN(s, n) ==
    /\ connPc[s] = "connected"
    /\ ~closed[s]
    /\ TotalPushed < n
    /\ \E message \in {NoMessage, pushed[s] + 1} :
         IF message = NoMessage
         THEN UNCHANGED <<queue, pushed, tickPush>>
         ELSE /\ queue' = [queue EXCEPT ![s] = Append(@, message)]
              /\ pushed' = [pushed EXCEPT ![s] = @ + 1]
              /\ tickPush' = [tickPush EXCEPT ![s] = @ \/ chatPc[s] \in {"pop", "handoff"}]
    /\ UNCHANGED <<gatewayVars, threadVars, chat_breakout, i, messages,
                   deliveryVars, handed, tickQueue, popped>>
    /\ UNCHANGED relayVars

ReceiveChat(s) ==
    ReceiveChatN(s, MaxPush)

ReceiveChatDrain(s) ==
    ReceiveChatN(s, MaxPushDrain)

\* HandleChat, lines 91-107: one iteration of the while loop, run with no
\* push in between, from loop head to loop head (where the locals i and
\* messages are dead).
HandleChat(s) ==
    /\ chatPc[s] = "check"
    /\ IF chat_breakout[s]
       THEN /\ chatPc' = [chatPc EXCEPT ![s] = "returned"]
            /\ UNCHANGED <<queue, loopTasks, handed>>
       ELSE LET r == PopLoop(<<>>, queue[s], PopAttempts)
            IN  /\ queue' = [queue EXCEPT ![s] = r[2]]
                /\ IF r[1] /= <<>>
                   THEN /\ loopTasks' = Append(loopTasks, [sess |-> s, message |-> r[1]])
                        /\ handed' = [handed EXCEPT ![s] = Append(@, r[1])]
                   ELSE UNCHANGED <<loopTasks, handed>>
                /\ UNCHANGED chatPc
    /\ UNCHANGED <<gatewayVars, executor, connPc, closed, chat_breakout, i,
                   messages, sent, pushed, tickQueue, tickPush, popped>>
    /\ UNCHANGED relayVars

\* HandleChat, lines 91-93: the loop head reads the stop signal.
HandleChat_check(s) ==
    /\ chatPc[s] = "check"
    /\ chatPc' = [chatPc EXCEPT ![s] = IF chat_breakout[s] THEN "returned" ELSE "sleep"]
    /\ UNCHANGED <<gatewayVars, executor, connPc, closed, queueVars,
                   deliveryVars, tickVars>>
    /\ UNCHANGED relayVars

\* HandleChat, lines 95-96: the sleep ends and the tick starts.
HandleChat_wake(s) ==
    /\ chatPc[s] = "sleep"
    /\ chatPc' = [chatPc EXCEPT ![s] = "pop"]
    /\ messages' = [messages EXCEPT ![s] = <<>>]
    /\ i' = [i EXCEPT ![s] = 0]
    /\ tickQueue' = [tickQueue EXCEPT ![s] = queue[s]]
    /\ tickPush' = [tickPush EXCEPT ![s] = FALSE]
    /\ popped' = [popped EXCEPT ![s] = 0]
    /\ UNCHANGED <<gatewayVars, executor, connPc, closed, queue, chat_breakout,
                   deliveryVars, pushed, handed>>
    /\ UNCHANGED relayVars

\* HandleChat, lines 97-102: one iteration of the for loop.
HandleChat_pop(s) ==
    /\ chatPc[s] = "pop"
    /\ IF queue[s] /= <<>>
       THEN /\ messages' = [messages EXCEPT ![s] = AppendLine(@, popleft(queue[s])[1])]
            /\ queue' = [queue EXCEPT ![s] = popleft(queue[s])[2]]
            /\ popped' = [popped EXCEPT ![s] = @ + 1]
       ELSE UNCHANGED <<messages, queue, popped>>
    /\ i' = [i EXCEPT ![s] = @ + 1]
    /\ chatPc' = [chatPc EXCEPT ![s] = IF i[s] + 1 < PopAttempts THEN "pop" ELSE "handoff"]
    /\ UNCHANGED <<gatewayVars, executor, connPc, closed, chat_breakout,
                   deliveryVars, pushed, handed, tickQueue, tickPush>>
    /\ UNCHANGED relayVars

\* (mutant) the drain thread gives the batch to channel.send itself.
HandleChat_handoff_Direct(s) ==
    /\ chatPc[s] = "handoff"
    /\ IF messages[s] /= <<>>
       THEN /\ sent' = Append(sent, [sess |-> s, message |-> messages[s]])
            /\ handed' = [handed EXCEPT ![s] = Append(@, messages[s])]
       ELSE UNCHANGED <<sent, handed>>
    /\ chatPc' = [chatPc EXCEPT ![s] = "check"]
    /\ UNCHANGED <<gatewayVars, executor, connPc, closed, queueVars, loopTasks,
                   pushed, tickQueue, tickPush, popped>>
    /\ UNCHANGED relayVars

\* HandleChat, lines 104-107: a non-empty batch becomes a task of the loop.
HandleChat_handoff(s) ==
    /\ chatPc[s] = "handoff"
    /\ IF messages[s] /= <<>>
       THEN /\ loopTasks' = Append(loopTasks, [sess |-> s, message |-> messages[s]])
            /\ handed' = [handed EXCEPT ![s] = Append(@, messages[s])]
       ELSE UNCHANGED <<loopTasks, handed>>
    /\ chatPc' = [chatPc EXCEPT ![s] = "check"]
    /\ UNCHANGED <<gatewayVars, executor, connPc, closed, queueVars, sent,
                   pushed, tickQueue, tickPush, popped>>
    /\ UNCHANGED relayVars

\* (mutant) the tests of lines 118-122 left out.
SendChatToDiscord_Unchecked ==
    /\ loopTasks /= <<>>
    /\ loopTasks' = Tail(loopTasks)
    /\ sent' = Append(sent, Head(loopTasks))
    /\ UNCHANGED <<gatewayVars, threadVars, queueVars, tickVars>>
    /\ UNCHANGED relayVars

\* SendChatToDiscord, run by the event loop in the order of creation.
SendChatToDiscord ==
    /\ loopTasks /= <<>>
    /\ loopTasks' = Tail(loopTasks)
    /\ sent' = IF wrapperIsPycraftInstance /\ player /= None
               THEN Append(sent, Head(loopTasks))
               ELSE sent
    /\ UNCHANGED <<gatewayVars, threadVars, queueVars, tickVars>>
    /\ UNCHANGED relayVars

\* ------------------------------------------------------ specifications
\* The session lifecycle: handlers of the event loop, the executor and the
\* sessions' threads, each drain tick taken as one step.
Next ==
    \/ connect
    \/ on_ready
    \/ \E p \in {"connect.delete", "on_ready.fetch_channel"} : connect_check(p)
    \/ \E p \in {"on_ready.fetch_channel", "connect.fetch_channel"} : fetch_channel_fails(p)
    \/ connect_create
    \/ disconnect
    \/ disconnect_run
    \/ executor_start
    \/ \E s \in SessIds :
         \/ Connect(s)
         \/ Connect_return(s)
         \/ ReceiveChat(s)
         \/ HandleChat(s)
    \/ SendChatToDiscord

Spec ==
    Init /\ [][Next]_vars

\* The same with the scheduling the runtime gives: the executor starts
\* queued work as soon as a worker is free, and a started thread keeps
\* running.  Nothing is assumed about when commands or chat arrive.
SpecFair ==
    /\ Spec
    /\ WF_vars(executor_start)
    /\ \A s \in SessIds :
         /\ WF_vars(Connect(s))
         /\ WF_vars(Connect_return(s))
         /\ WF_vars(HandleChat(s))

\* One session connected by a first connect command, its threads started.
InitDrain ==
    /\ player = 1
    /\ awaiting = [p \in AwaitPoints |-> 0]
    /\ result = Outcome(ConnectedMsg, <<>>)
    /\ executor = <<>>
    /\ connPc = [s \in SessIds |-> IF s = 1 THEN "connected" ELSE "none"]
    /\ chatPc = [s \in SessIds |-> IF s = 1 THEN "check" ELSE "none"]
    /\ closed = [s \in SessIds |-> FALSE]
    /\ queue = [s \in SessIds |-> <<>>]
    /\ chat_breakout = [s \in SessIds |-> FALSE]
    /\ i = [s \in SessIds |-> 0]
    /\ messages = [s \in SessIds |-> <<>>]
    /\ loopTasks = <<>>
    /\ sent = <<>>
    /\ pushed = [s \in SessIds |-> 0]
    /\ handed = [s \in SessIds |-> <<>>]
    /\ tickQueue = [s \in SessIds |-> <<>>]
    /\ tickPush = [s \in SessIds |-> FALSE]
    /\ popped = [s \in SessIds |-> 0]
    /\ relayed = NoRelay
    /\ gameChat = <<>>

\* The game thread, the drain thread and the event loop of a held session,
\* the drain thread taken one deque operation at a time.
NextDrain ==
    \/ \E s \in SessIds :
         \/ ReceiveChatDrain(s)
         \/ HandleChat_check(s)
         \/ HandleChat_wake(s)
         \/ HandleChat_pop(s)
         \/ HandleChat_handoff(s)
    \/ SendChatToDiscord

SpecDrain ==
    InitDrain /\ [][NextDrain]_vars

\* The handlers that give chat to the game, on a session connected by a
\* first connect command, with the game thread and the disconnect command.
NextRelay ==
    \/ on_message
    \/ sudo
    \/ disconnect
    \/ disconnect_run
    \/ \E s \in SessIds : ReceiveChat(s)

SpecRelay ==
    InitDrain /\ [][NextRelay]_vars

\* ------------------------------------------------------------- properties
RECURSIVE Flatten(_)
Flatten(bs) ==
    IF bs = <<>> THEN <<>> ELSE Head(bs) \o Flatten(Tail(bs))

\* The fragments of a batch string: the newlines dropped.
RECURSIVE Fragments(_)
Fragments(m) ==
    IF m = <<>> THEN <<>>
    ELSE IF Head(m) = NL THEN Fragments(Tail(m))
    ELSE <<Head(m)>> \o Fragments(Tail(m))

\* The batch string of the fragments q: each followed by a newline.
RECURSIVE Lines(_)
Lines(q) ==
    IF q = <<>> THEN <<>> ELSE <<Head(q), NL>> \o Lines(Tail(q))

Min(a, b) ==
    IF a < b THEN a ELSE b

\* The batch HandleChat is building in the tick in progress.
InProgress(s) ==
    IF chatPc[s] \in {"pop", "handoff"} THEN messages[s] ELSE <<>>

\* C1 (as claimed; refuted): at most one session is Connecting or Active at
\* a time.  A connect request is Connecting once it has passed the check of
\* line 175 and until it has built its PlayerWrapper; a session is Active
\* while bot.player holds it.
C1_AtMostOneSession ==
    awaiting["connect.fetch_channel"] + (IF player = None THEN 0 ELSE 1) <= 1

\* C2: a connect request that reaches its check while a session is held is
\* rejected: the caller is sent the "already established" text, the request
\* does not go on to fetch_channel, no PlayerWrapper is built, nothing is
\* submitted to the executor, and bot.player, the queues and the threads
\* stay as they are.  (An on_ready whose own fetch_channel fails never
\* reaches connect, and leaves the same things untouched.)
C2_ConnectWhileActiveRejected ==
    [][\A p \in {"connect.delete", "on_ready.fetch_channel"} :
         (player /= None /\ awaiting'[p] = awaiting[p] - 1)
         => /\ \/ result' = Outcome(AlreadyConnectedMsg, <<>>)
               \/ /\ p = "on_ready.fetch_channel"
                  /\ result' = Outcome(<<>>, <<"HTTPException">>)
            /\ awaiting'["connect.fetch_channel"] = awaiting["connect.fetch_channel"]
            /\ NumSess' = NumSess
            /\ UNCHANGED <<player, threadVars, queueVars, deliveryVars, tickVars>>]_vars

\* C2 witness: a connect request has been rejected while a session is held
\* and its drain thread runs.
C2_Witness ==
    /\ result = Outcome(AlreadyConnectedMsg, <<>>)
    /\ player /= None
    /\ chatPc[player] = "check"

\* C3 (as claimed; refuted): when a disconnect request calls Disconnect on
\* the session held, that session's stop signal chat_breakout has already
\* been raised, so that its HandleChat loop can observe it and return.
C3_StopSignalBeforeDisconnect ==
    [][(player /= None
        /\ awaiting'["disconnect.delete"] = awaiting["disconnect.delete"] - 1)
       => chat_breakout[player]]_vars

\* C4 (as claimed; refuted): a disconnect request that finds a session held
\* always ends with bot.player None, whatever Disconnect raises.
C4_DisconnectAlwaysIdle ==
    [][(player /= None
        /\ awaiting'["disconnect.delete"] = awaiting["disconnect.delete"] - 1)
       => player' = None]_vars

\* C5 (as claimed; refuted): a session whose Connect failed is not left
\* Active: bot.player does not hold it.
C5_FailedConnectNotActive ==
    \A s \in SessIds : connPc[s] = "failed" => player /= s

\* C6: when building the PlayerWrapper raises YggdrasilError(e), the caller
\* is sent "Login failure: 'e'" with the provider's text e, bot.player is
\* left as it was (None when no other request set it), no session is
\* created and nothing is submitted to the executor: the Connect and
\* HandleChat threads, the queues and the deliveries stay as they are.
C6_AuthFailureLeavesIdle ==
    [][\A e \in Reasons :
         (/\ awaiting'["connect.fetch_channel"] = awaiting["connect.fetch_channel"] - 1
          /\ result'.exc = <<"YggdrasilError", e>>)
         => /\ result'.feedback = LoginFailureMsg(e)
            /\ NumSess' = NumSess
            /\ player = None => player' = None
            /\ UNCHANGED <<player, threadVars, queueVars, deliveryVars, tickVars>>]_vars

\* C6 witness: a connect request has ended with a login failure, no session
\* exists and nothing was submitted.
C6_Witness ==
    /\ result = Outcome(LoginFailureMsg("Forbidden"), <<"YggdrasilError", "Forbidden">>)
    /\ player = None
    /\ NumSess = 0
    /\ executor = <<>>

\* C7: while the drain loop runs (it has not observed a stop signal), the
\* fragments pushed so far are, in the order of their arrival and each
\* exactly once, those of the batches handed off, then those of the batch
\* being built, then those still queued: none is lost, none is in two
\* batches.
C7_NoLossNoDuplicate ==
    \A s \in SessIds :
        chatPc[s] /= "returned"
        => Fragments(Flatten(handed[s])) \o Fragments(InProgress(s)) \o queue[s]
           = [k \in 1..pushed[s] |-> k]

\* C7 witness: pushes have interleaved with the pops of a tick, after
\* earlier batches were handed off, and fragments are still queued.
C7_Witness ==
    /\ Len(handed[1]) >= 2
    /\ chatPc[1] = "pop"
    /\ tickPush[1]
    /\ popped[1] >= 1
    /\ queue[1] /= <<>>

\* C8 (as claimed; refuted): a tick that found the queue empty when its
\* sleep ended hands off no batch, also when fragments are pushed during
\* its pop attempts.
C8_EmptyAtTickStartNoHandoff ==
    \A s \in SessIds :
        (chatPc[s] = "handoff" /\ tickQueue[s] = <<>>) => messages[s] = <<>>

\* C9: a tick removes at most 5 fragments from the queue, whatever is
\* queued and whatever is pushed meanwhile.
C9_AtMostFivePerTick ==
    \A s \in SessIds :
        /\ popped[s] <= 5
        /\ chatPc[s] \in {"pop", "handoff"} => Len(Fragments(messages[s])) = popped[s]

\* C9 witness: a tick has removed 5 fragments, with pushes during the tick,
\* and fragments are left in the queue.
C9_Witness ==
    /\ chatPc[1] = "handoff"
    /\ popped[1] = 5
    /\ tickPush[1]
    /\ queue[1] /= <<>>

\* C10: when a tick's pop attempts are over and nothing was pushed during
\* the tick, the batch is the first min(5, n) of the n fragments queued at
\* tick time, in order, each followed by a newline, and the queue holds the
\* other n - min(5, n) in order; the batch handed off is that batch.
C10_BatchIsFirstFive ==
    \A s \in SessIds :
        LET n == Len(tickQueue[s])
            k == Min(5, n)
        IN  /\ (chatPc[s] = "handoff" /\ ~tickPush[s])
               => /\ messages[s] = Lines(SubSeq(tickQueue[s], 1, k))
                  /\ queue[s] = SubSeq(tickQueue[s], k + 1, n)
            /\ (chatPc[s] \in {"check", "sleep"} /\ ~tickPush[s] /\ k > 0)
               => /\ handed[s] /= <<>>
                  /\ handed[s][Len(handed[s])] = Lines(SubSeq(tickQueue[s], 1, k))

\* C10 witness: 7 fragments were queued at tick time, nothing was pushed
\* during the tick, and the tick has handed off its batch.
C10_Witness ==
    /\ chatPc[1] = "check"
    /\ ~tickPush[1]
    /\ tickQueue[1] = <<1, 2, 3, 4, 5, 6, 7>>
    /\ queue[1] = <<6, 7>>
    /\ handed[1] = <<Lines(<<1, 2, 3, 4, 5>>)>>

\* C11: a disconnect request that runs while bot.player is None, or that
\* runs next after another disconnect request ended (no other request
\* ended in between), raises nothing, finds bot.player already None, so
\* that Disconnect() is not called a second time, and leaves it None.
DisconnectOutcomes ==
    {Outcome(DisconnectedMsg, <<>>), Outcome(NotEstablishedMsg, <<>>),
     Outcome(<<>>, <<"Exception">>)}

C11_DisconnectIdempotent ==
    [][(/\ awaiting'["disconnect.delete"] = awaiting["disconnect.delete"] - 1
        /\ (player = None \/ result \in DisconnectOutcomes))
       => (/\ player = None
           /\ player' = None
           /\ closed' = closed
           /\ result'.exc = <<>>)]_vars

\* C12: on_message gives a message's text to SendChat, and calls
\* message.delete(), only for a message whose author is not a bot, handled
\* while bot.player is not None, whose content does not start with the
\* prefix; for any other message neither is done.  delete() is called only
\* after SendChat returned.
C12_RelayOnlyWhenEligible ==
    /\ (relayed.forwarded \/ relayed.deleted)
       => (/\ ~relayed.bot
           /\ relayed.held /= None
           /\ ~StartsWith(relayed.content, PREFIX)
           /\ gameChat[1] \in SessIds)
    /\ relayed.deleted => relayed.forwarded

\* A bot account's plain chat, handled while a session is held.
C12_Witness ==
    /\ relayed.bot
    /\ relayed.guild
    /\ relayed.held /= None
    /\ relayed.content = <<"h", "i">>
    /\ ~relayed.forwarded
    /\ ~relayed.deleted
    /\ gameChat = <<>>

\* C13: delivery never blocks draining.  A running drain thread can take
\* its next step whatever delivery tasks are pending on the event loop; no
\* step of a drain thread gives anything to channel.send; a non-empty batch
\* leaves the drain thread as a new task at the end of the loop's tasks.
DrainStep(s) ==
    \/ HandleChat_check(s)
    \/ HandleChat_wake(s)
    \/ HandleChat_pop(s)
    \/ HandleChat_handoff(s)

C13_DeliveryNeverBlocksDrain ==
    /\ [](\A s \in SessIds : ChatRunning(s) => ENABLED DrainStep(s))
    /\ [][\A s \in SessIds :
            chatPc'[s] /= chatPc[s]
            => (/\ sent' = sent
                /\ (chatPc[s] = "handoff" /\ messages[s] /= <<>>)
                   => loopTasks' = Append(loopTasks,
                                          [sess |-> s, message |-> messages[s]])
                /\ ~(chatPc[s] = "handoff" /\ messages[s] /= <<>>)
                   => loopTasks' = loopTasks)]_vars

\* The second tick has popped a fragment while the first tick's batch is
\* still a pending task.
C13_Witness ==
    /\ Len(handed[1]) = 1
    /\ loopTasks = <<[sess |-> 1, message |-> handed[1][1]]>>
    /\ sent = <<>>
    /\ chatPc[1] = "pop"
    /\ popped[1] >= 1

\* The batches of session s among those channel.send was given, in order.
RECURSIVE SentOf(_, _)
SentOf(ts, s) ==
    IF ts = <<>> THEN <<>>
    ELSE (IF Head(ts).sess = s THEN <<Head(ts).message>> ELSE <<>>)
         \o SentOf(Tail(ts), s)

\* C14: the fragments of a session reach channel.send in the order they
\* were pushed (fragments are numbered in push order): read message after
\* message, and line after line inside a message, what was sent is
\* strictly increasing, and it is the beginning of what was handed off.
C14_SentInPushOrder ==
    \A s \in SessIds :
      LET fs == Fragments(Flatten(SentOf(sent, s)))
          hs == Fragments(Flatten(handed[s]))
      IN  /\ \A a, b \in 1..Len(fs) : a < b => fs[a] < fs[b]
          /\ Len(fs) <= Len(hs)
          /\ fs = SubSeq(hs, 1, Len(fs))

\* Two batches sent, in two messages, while two more delivery tasks are
\* pending together.
C14_Witness ==
    /\ Len(sent) >= 2
    /\ Len(loopTasks) >= 2
    /\ Len(handed[1]) >= 4
    /\ queue[1] /= <<>>

\* Every session created before s has been disconnected and its game
\* connection closed.
OthersClosed(s) ==
    \A u \in SessIds \ {s} : connPc[u] /= "none" => (closed[u] /\ player /= u)

\* C15: after a connect that made s the held session, every earlier
\* session being disconnected, the executor eventually starts both
\* Player.Connect and HandleChat of s, unless s stops being held first.
C15_ThreadsEventuallyStart ==
    \A s \in SessIds :
      (player = s /\ OthersClosed(s))
      ~> ((connPc[s] /= "queued" /\ chatPc[s] /= "queued") \/ player /= s)

\* C16: a batch of a session whose disconnect has completed (its game
\* connection closed) is never given to channel.send, whatever session
\* is held when its delivery task runs.
C16_NoSendAfterDisconnect ==
    [][sent' /= sent => ~closed[Head(loopTasks).sess]]_vars

\* C17: in a tick in which a pop attempt has found the queue empty (more
\* attempts made than fragments popped), no later attempt of the same tick
\* pops a fragment.
C17_StopAtFirstEmpty ==
    [][\A s \in SessIds :
         (chatPc[s] = "pop" /\ i[s] > popped[s] /\ i'[s] /= i[s])
         => popped'[s] = popped[s]]_vars

\* C18: a step of sudo or of on_message in which SendChat raises leaves
\* bot.player, the executor, the threads, the queues and the delivery
\* tasks as they were and gives the game nothing; sudo sends no
\* confirmation, on_message does not call message.delete().
C18_SendFailureLeavesSession ==
    [][/\ (result' /= result /\ result'.exc = <<"SendFailure">>)
          => (/\ player /= None
              /\ result'.feedback = <<>>
              /\ UNCHANGED <<player, threadVars, queueVars, deliveryVars,
                             tickVars, gameChat>>)
       /\ (relayed' /= relayed /\ relayed'.exc = <<"SendFailure">>)
          => (/\ player /= None
              /\ ~relayed'.forwarded
              /\ ~relayed'.deleted
              /\ UNCHANGED <<player, threadVars, queueVars, deliveryVars,
                             tickVars, gameChat>>)]_vars

\* Both handlers have met a failing SendChat on the held session, a
\* fragment being queued, and the session is still held.
C18_Witness ==
    /\ result = Outcome(<<>>, <<"SendFailure">>)
    /\ relayed.exc = <<"SendFailure">>
    /\ player = 1
    /\ queue[1] = <<1>>
    /\ chatPc[1] = "check"
    /\ gameChat = <<>>

\* C19: channel.send is given a batch only in a step taken while
\* bot.player is not None; the step of a delivery task taken while it is
\* None removes the task and puts its batch nowhere: not in a queue, not
\* among the tasks, not in the channel.
C19_NoSendWhileIdle ==
    [][/\ sent' /= sent => player /= None
       /\ (player = None /\ loopTasks' /= loopTasks /\ Len(loopTasks') < Len(loopTasks))
          => (/\ loopTasks' = Tail(loopTasks)
              /\ UNCHANGED <<sent, queue, messages, handed>>)]_vars

\* The batch handed off by the only session was dropped: its task ran
\* after the disconnect.
C19_Witness ==
    /\ handed[1] /= <<>>
    /\ closed[1]
    /\ player = None
    /\ loopTasks = <<>>
    /\ sent = <<>>
    /\ queue[1] = <<>>
    /\ connPc[2] = "none"

====
